---- MODULE Spec2Model ----
(***************************************************************************)
(* TerraStore: the package catalog engine (src/src/database.rs) and the    *)
(* two App operations that replace the store (src/src/ui.rs).               *)
(*                                                                         *)
(* Strings are sequences of byte values.  The cache file is a sequence of  *)
(* words, one per fixed-width bincode field or arena byte, so a file cut   *)
(* inside a field reads exactly like one cut right before that field.      *)
(***************************************************************************)
EXTENDS Integers, Sequences, FiniteSets, TLC

(***************************************************************************)
(* Bounds of the model.                                                    *)
(***************************************************************************)
MaxPkgs == 2
MaxAurPkgs == 1
MaxWord == 3
MaxOut == 4
MaxAurOut == 2
MaxSearchOut == 4
MaxQueryLen == 2
MaxLimit == 3

(***************************************************************************)
(* Program constants.                                                      *)
(***************************************************************************)
CACHE_VERSION == 1
HeaderWords == 5
ViewWords == 3
LF == 10
CR == 13
(* U+FFFD REPLACEMENT CHARACTER in UTF-8 *)
Replacement == <<239, 191, 189>>

Official == "Official"
Aur == "Aur"
PackageSource == {Official, Aur}
NoFilter == "All"

(***************************************************************************)
(* Bounded sequences.                                                      *)
(***************************************************************************)
SeqUpTo(S, n) == UNION {[1..k -> S] : k \in 0..n}

Min(a, b) == IF a <= b THEN a ELSE b

(***************************************************************************)
(* String::from_utf8_lossy restricted to the bytes of the model: ASCII is  *)
(* kept, an already encoded U+FFFD is kept, any other byte becomes U+FFFD. *)
(***************************************************************************)
RECURSIVE from_utf8_lossy(_)
from_utf8_lossy(bytes) ==
    IF bytes = <<>> THEN <<>>
    ELSE IF Head(bytes) < 128
         THEN <<Head(bytes)>> \o from_utf8_lossy(Tail(bytes))
    ELSE IF Len(bytes) >= 3 /\ SubSeq(bytes, 1, 3) = Replacement
         THEN Replacement \o from_utf8_lossy(SubSeq(bytes, 4, Len(bytes)))
    ELSE Replacement \o from_utf8_lossy(Tail(bytes))

(***************************************************************************)
(* A byte offset is a char boundary unless it falls inside a U+FFFD.       *)
(***************************************************************************)
IsCharBoundary(s, i) ==
    \/ i = 0
    \/ i = Len(s)
    \/ /\ i > 0
       /\ i < Len(s)
       /\ s[i + 1] \notin {191, 189}

(***************************************************************************)
(* str::lines: split at LF, drop the LF and a CR right before it; a final  *)
(* piece without LF is a line too, an empty final piece is not.            *)
(***************************************************************************)
StripCr(line) ==
    IF line # <<>> /\ line[Len(line)] = CR
    THEN SubSeq(line, 1, Len(line) - 1)
    ELSE line

RECURSIVE LinesFrom(_, _)
LinesFrom(text, cur) ==
    IF text = <<>> THEN (IF cur = <<>> THEN <<>> ELSE <<cur>>)
    ELSE IF Head(text) = LF
         THEN <<StripCr(cur)>> \o LinesFrom(Tail(text), <<>>)
    ELSE LinesFrom(Tail(text), Append(cur, Head(text)))

Lines(text) == LinesFrom(text, <<>>)

(***************************************************************************)
(* str::to_lowercase on the bytes of the model.                            *)
(***************************************************************************)
LowerByte(b) == IF b \in 65..90 THEN b + 32 ELSE b

to_lowercase(s) == [i \in 1..Len(s) |-> LowerByte(s[i])]

(***************************************************************************)
(* str::contains                                                           *)
(***************************************************************************)
contains(s, pat) ==
    \E i \in 0..(Len(s) - Len(pat)) : SubSeq(s, i + 1, i + Len(pat)) = pat

(***************************************************************************)
(* PackageDatabase::new                                                    *)
(***************************************************************************)
DefaultStats ==
    [official_count |-> 0, aur_count |-> 0, arena_bytes |-> 0, was_cached |-> FALSE]

NewDatabase == [arena |-> <<>>, packages |-> <<>>, stats |-> DefaultStats]

(***************************************************************************)
(* The body of the two `for line in text.lines()` loops of build_fresh:    *)
(* acc is [arena, packages, count]; an empty line is skipped, any other    *)
(* line is pushed with its LF and gets one view.                           *)
(***************************************************************************)
PushLineNoDelimiter(acc, line, source) ==
    IF line = <<>> THEN acc
    ELSE [arena    |-> acc.arena \o line,
          packages |-> Append(acc.packages,
                              [name_start |-> Len(acc.arena),
                               name_end   |-> Len(acc.arena) + Len(line),
                               source     |-> source]),
          count    |-> acc.count + 1]

PushLineEndAfterLf(acc, line, source) ==
    IF line = <<>> THEN acc
    ELSE [arena    |-> acc.arena \o line \o <<LF>>,
          packages |-> Append(acc.packages,
                              [name_start |-> Len(acc.arena),
                               name_end   |-> Len(acc.arena) + Len(line) + 1,
                               source     |-> source]),
          count    |-> acc.count + 1]

PushLine(acc, line, source) ==
    IF line = <<>> THEN acc
    ELSE [arena    |-> acc.arena \o line \o <<LF>>,
          packages |-> Append(acc.packages,
                              [name_start |-> Len(acc.arena),
                               name_end   |-> Len(acc.arena) + Len(line),
                               source     |-> source]),
          count    |-> acc.count + 1]

RECURSIVE PushLinesReversed(_, _, _)
PushLinesReversed(acc, lines, source) ==
    IF lines = <<>> THEN acc
    ELSE PushLine(PushLinesReversed(acc, Tail(lines), source), Head(lines), source)

RECURSIVE PushLines(_, _, _)
PushLines(acc, lines, source) ==
    IF lines = <<>> THEN acc
    ELSE PushLines(PushLine(acc, Head(lines), source), Tail(lines), source)

(***************************************************************************)
(* What the external commands answer during one build: official and aur    *)
(* are [ok, stdout] of `pacman -Slq` and `<helper> -Slq --aur` (ok is      *)
(* false when the command cannot be run or exits non-zero); paru and yay   *)
(* tell whether `<helper> --version` succeeds.                             *)
(***************************************************************************)
AurHelperYayFirst(env) == IF env.yay THEN "yay" ELSE IF env.paru THEN "paru" ELSE "none"

AurHelper(env) == IF env.paru THEN "paru" ELSE IF env.yay THEN "yay" ELSE "none"

Commands(env) ==
    <<"pacman -Slq", "paru --version">>
    \o (IF env.paru THEN <<>> ELSE <<"yay --version">>)
    \o (IF AurHelper(env) = "none" THEN <<>> ELSE <<AurHelper(env) \o " -Slq --aur">>)

(***************************************************************************)
(* PackageDatabase::build_fresh                                            *)
(***************************************************************************)
build_fresh(env) ==
    LET start == [arena |-> <<>>, packages |-> <<>>, count |-> 0]
        off   == IF env.official.ok
                 THEN PushLines(start, Lines(from_utf8_lossy(env.official.stdout)), Official)
                 ELSE start
        mid   == [off EXCEPT !.count = 0]
        all   == IF AurHelper(env) # "none" /\ env.aur.ok
                 THEN PushLines(mid, Lines(from_utf8_lossy(env.aur.stdout)), Aur)
                 ELSE mid
    IN  [arena    |-> all.arena,
         packages |-> all.packages,
         stats    |-> [official_count |-> off.count,
                       aur_count      |-> all.count,
                       arena_bytes    |-> 0,
                       was_cached     |-> FALSE]]

(***************************************************************************)
(* PackageView::name: &arena[name_start..name_end].  Slicing a str panics  *)
(* when the range is reversed, ends past the arena or cuts a character.    *)
(***************************************************************************)
SliceOk(view, arena) ==
    /\ view.name_start <= view.name_end
    /\ view.name_end <= Len(arena)
    /\ IsCharBoundary(arena, view.name_start)
    /\ IsCharBoundary(arena, view.name_end)

name(view, arena) == SubSeq(arena, view.name_start + 1, view.name_end)

(***************************************************************************)
(* PackageDatabase::search.  filter is NoFilter or a PackageSource.  The   *)
(* scan is the for loop: results so far in acc, next index idx (0-based).  *)
(* The result is [panic, out]: panic when a scanned view cannot be sliced. *)
(***************************************************************************)
SourcePassesAlways(view, filter) == TRUE

SourcePasses(view, filter) == filter = NoFilter \/ view.source = filter

NameMatches(view, arena, query_lower) ==
    contains(to_lowercase(name(view, arena)), query_lower)

RECURSIVE Scan(_, _, _, _, _, _)
Scan(db, query_lower, filter, limit, idx, acc) ==
    IF idx >= Len(db.packages) THEN [panic |-> FALSE, out |-> acc]
    ELSE IF ~SourcePasses(db.packages[idx + 1], filter)
         THEN Scan(db, query_lower, filter, limit, idx + 1, acc)
    ELSE IF ~SliceOk(db.packages[idx + 1], db.arena)
         THEN [panic |-> TRUE, out |-> acc]
    ELSE IF NameMatches(db.packages[idx + 1], db.arena, query_lower)
         THEN IF Len(acc) + 1 >= limit
              THEN [panic |-> FALSE, out |-> Append(acc, idx)]
              ELSE Scan(db, query_lower, filter, limit, idx + 1, Append(acc, idx))
    ELSE Scan(db, query_lower, filter, limit, idx + 1, acc)

searchNoEmptyCheck(db, query, filter, limit) ==
    Scan(db, to_lowercase(query), filter, limit, 0, <<>>)

search(db, query, filter, limit) ==
    IF query = <<>> THEN [panic |-> FALSE, out |-> <<>>]
    ELSE Scan(db, to_lowercase(query), filter, limit, 0, <<>>)

(***************************************************************************)
(* PackageDatabase::get_name, get_source: Option as [some, value].         *)
(***************************************************************************)
get_nameOneBased(db, idx) ==
    IF idx >= 1 /\ idx <= Len(db.packages)
    THEN [some |-> TRUE, value |-> name(db.packages[idx], db.arena)]
    ELSE [some |-> FALSE, value |-> <<>>]

get_name(db, idx) ==
    IF idx < Len(db.packages)
    THEN [some |-> TRUE, value |-> name(db.packages[idx + 1], db.arena)]
    ELSE [some |-> FALSE, value |-> <<>>]

get_source(db, idx) ==
    IF idx < Len(db.packages)
    THEN [some |-> TRUE, value |-> db.packages[idx + 1].source]
    ELSE [some |-> FALSE, value |-> Official]

(***************************************************************************)
(* bincode layout of the cache file, one word per field:                   *)
(*   CacheHeader  version, official_count, aur_count, arena_len, timestamp *)
(*   arena bytes  length, then the bytes                                   *)
(*   packages     length, then name_start, name_end, variant per view      *)
(***************************************************************************)
SourceTagSwapped(source) == IF source = Official THEN 1 ELSE 0

SourceTag(source) == IF source = Official THEN 0 ELSE 1

TagSource(tag) == IF tag = 0 THEN Official ELSE Aur

RECURSIVE EncodeViews(_)
EncodeViews(packages) ==
    IF packages = <<>> THEN <<>>
    ELSE <<Head(packages).name_start, Head(packages).name_end,
           SourceTag(Head(packages).source)>> \o EncodeViews(Tail(packages))

EncodeHeaderSwapped(db, timestamp) ==
    <<CACHE_VERSION, db.stats.aur_count, db.stats.official_count,
      Len(db.arena), timestamp>>

EncodeHeader(db, timestamp) ==
    <<CACHE_VERSION, db.stats.official_count, db.stats.aur_count,
      Len(db.arena), timestamp>>

(***************************************************************************)
(* The words save_to_cache writes for a store, in the order written.       *)
(***************************************************************************)
Serialize(db, timestamp) ==
    EncodeHeader(db, timestamp)
    \o <<Len(db.arena)>> \o db.arena
    \o <<Len(db.packages)>> \o EncodeViews(db.packages)

(***************************************************************************)
(* bincode::deserialize_from for Vec<PackageView> at word position pos     *)
(* (1-based) of words: n views are read; a missing word or an unknown enum *)
(* variant is an error.  Words after the last view are never read.         *)
(***************************************************************************)
DecodeView(words, at) ==
    [name_start |-> words[at], name_end |-> words[at + 1],
     source |-> TagSource(words[at + 2])]

DecodeViewsLenient(words, pos) ==
    IF pos > Len(words) THEN [ok |-> TRUE, value |-> <<>>]
    ELSE LET n == Min(words[pos], (Len(words) - pos) \div ViewWords)
         IN  [ok |-> TRUE,
              value |-> [i \in 1..n |->
                           DecodeView(words, pos + ViewWords * (i - 1) + 1)]]

DecodeViews(words, pos) ==
    IF pos > Len(words) THEN [ok |-> FALSE, value |-> <<>>]
    ELSE LET n == words[pos]
         IN  IF pos + ViewWords * n > Len(words)
                \/ \E i \in 1..n : words[pos + ViewWords * i] \notin {0, 1}
             THEN [ok |-> FALSE, value |-> <<>>]
             ELSE [ok |-> TRUE,
                   value |-> [i \in 1..n |->
                                DecodeView(words, pos + ViewWords * (i - 1) + 1)]]

(***************************************************************************)
(* bincode::deserialize_from for Vec<u8> at word position pos.             *)
(***************************************************************************)
DecodeBytes(words, pos) ==
    IF pos > Len(words) \/ pos + words[pos] > Len(words)
    THEN [ok |-> FALSE, value |-> <<>>, next |-> pos]
    ELSE [ok |-> TRUE,
          value |-> SubSeq(words, pos + 1, pos + words[pos]),
          next |-> pos + words[pos] + 1]

(***************************************************************************)
(* PackageDatabase::load_from_cache after the file has been opened:        *)
(* Option<Self> as [some, db].                                             *)
(***************************************************************************)
Miss == [some |-> FALSE, db |-> NewDatabase]

DeserializeAnyVersion(words) ==
    IF Len(words) < HeaderWords THEN Miss
    ELSE LET bytes == DecodeBytes(words, HeaderWords + 1)
             views == DecodeViews(words, bytes.next)
             arena == from_utf8_lossy(bytes.value)
         IN  IF ~bytes.ok THEN Miss
             ELSE IF ~views.ok THEN Miss
             ELSE [some |-> TRUE,
                   db |-> [arena    |-> arena,
                           packages |-> views.value,
                           stats    |-> [official_count |-> words[2],
                                         aur_count      |-> words[3],
                                         arena_bytes    |-> Len(arena),
                                         was_cached     |-> TRUE]]]

Deserialize(words) ==
    IF Len(words) < HeaderWords THEN Miss
    ELSE IF words[1] # CACHE_VERSION THEN Miss
    ELSE LET bytes == DecodeBytes(words, HeaderWords + 1)
             views == DecodeViews(words, bytes.next)
             arena == from_utf8_lossy(bytes.value)
         IN  IF ~bytes.ok THEN Miss
             ELSE IF ~views.ok THEN Miss
             ELSE [some |-> TRUE,
                   db |-> [arena    |-> arena,
                           packages |-> views.value,
                           stats    |-> [official_count |-> words[2],
                                         aur_count      |-> words[3],
                                         arena_bytes    |-> Len(arena),
                                         was_cached     |-> TRUE]]]

(***************************************************************************)
(* The cache file is [exists, words].  The file system may refuse each     *)
(* step: path is whether cache_path() yields a path, the other flags       *)
(* whether the named call succeeds.                                        *)
(***************************************************************************)
NoFile == [exists |-> FALSE, words |-> <<>>]

(***************************************************************************)
(* PackageDatabase::load_from_cache                                        *)
(***************************************************************************)
load_from_cache(f, path, open_ok) ==
    IF ~path THEN Miss
    ELSE IF ~f.exists THEN Miss
    ELSE IF ~open_ok THEN Miss
    ELSE Deserialize(f.words)

(***************************************************************************)
(* PackageDatabase::save_to_cache: [ok, file].  File::create empties the   *)
(* file; steps is how many of the three serialize_into calls reach the     *)
(* disk before a write or the flush fails (3: none fails).                 *)
(***************************************************************************)
WrittenWords(db, timestamp, steps) ==
    IF steps = 0 THEN <<>>
    ELSE IF steps = 1 THEN EncodeHeader(db, timestamp)
    ELSE IF steps = 2 THEN EncodeHeader(db, timestamp) \o <<Len(db.arena)>> \o db.arena
    ELSE Serialize(db, timestamp)

save_to_cache(db, f, path, create_ok, steps, timestamp) ==
    IF ~path THEN [ok |-> TRUE, file |-> f]
    ELSE IF ~create_ok THEN [ok |-> FALSE, file |-> f]
    ELSE [ok   |-> steps = 3,
          file |-> [exists |-> TRUE, words |-> WrittenWords(db, timestamp, steps)]]

(***************************************************************************)
(* PackageDatabase::invalidate_cache: [ok, file].                          *)
(***************************************************************************)
invalidate_cacheStrict(f, path, remove_ok) ==
    IF ~path THEN [ok |-> TRUE, file |-> f]
    ELSE IF ~f.exists THEN [ok |-> FALSE, file |-> f]
    ELSE IF ~remove_ok THEN [ok |-> FALSE, file |-> f]
    ELSE [ok |-> TRUE, file |-> NoFile]

invalidate_cache(f, path, remove_ok) ==
    IF ~path THEN [ok |-> TRUE, file |-> f]
    ELSE IF ~f.exists THEN [ok |-> TRUE, file |-> f]
    ELSE IF ~remove_ok THEN [ok |-> FALSE, file |-> f]
    ELSE [ok |-> TRUE, file |-> NoFile]

(***************************************************************************)
(* PackageDatabase::load_or_build: [db, file, hit, save_ok, wrote].        *)
(* cached is what its call of load_from_cache returned.  A hit runs no     *)
(* command and writes nothing; a miss builds, sets was_cached and saves,   *)
(* dropping the result of the save.  save_ok is that dropped result, wrote *)
(* whether File::create replaced the file.                                 *)
(***************************************************************************)
load_or_buildHitUnflagged(cached, f, env, sf) ==
    LET built == build_fresh(env)
        fresh == [built EXCEPT !.stats.was_cached = FALSE]
        saved == save_to_cache(fresh, f, sf.save_path, sf.create_ok, sf.steps, sf.timestamp)
    IN  IF cached.some
        THEN [db |-> [cached.db EXCEPT !.stats.was_cached = FALSE], file |-> f,
              hit |-> TRUE, save_ok |-> FALSE, wrote |-> FALSE]
        ELSE [db |-> fresh, file |-> saved.file, hit |-> FALSE, save_ok |-> saved.ok,
              wrote |-> sf.save_path /\ sf.create_ok]

load_or_buildOfficialOnly(cached, f, env, sf) ==
    LET built == build_fresh([env EXCEPT !.aur = [ok |-> FALSE, stdout |-> <<>>]])
        fresh == [built EXCEPT !.stats.was_cached = FALSE]
        saved == save_to_cache(fresh, f, sf.save_path, sf.create_ok, sf.steps, sf.timestamp)
    IN  IF cached.some
        THEN [db |-> cached.db, file |-> f, hit |-> TRUE, save_ok |-> FALSE,
              wrote |-> FALSE]
        ELSE [db |-> fresh, file |-> saved.file, hit |-> FALSE, save_ok |-> saved.ok,
              wrote |-> sf.save_path /\ sf.create_ok]

load_or_buildSaveFatal(cached, f, env, sf) ==
    LET built == build_fresh(env)
        fresh == [built EXCEPT !.stats.was_cached = FALSE]
        saved == save_to_cache(fresh, f, sf.save_path, sf.create_ok, sf.steps, sf.timestamp)
    IN  IF cached.some
        THEN [db |-> cached.db, file |-> f, hit |-> TRUE, save_ok |-> FALSE,
              wrote |-> FALSE]
        ELSE [db |-> IF saved.ok THEN fresh ELSE NewDatabase,
              file |-> saved.file, hit |-> FALSE, save_ok |-> saved.ok,
              wrote |-> sf.save_path /\ sf.create_ok]

load_or_build(cached, f, env, sf) ==
    LET built == build_fresh(env)
        fresh == [built EXCEPT !.stats.was_cached = FALSE]
        saved == save_to_cache(fresh, f, sf.save_path, sf.create_ok, sf.steps, sf.timestamp)
    IN  IF cached.some
        THEN [db |-> cached.db, file |-> f, hit |-> TRUE, save_ok |-> FALSE,
              wrote |-> FALSE]
        ELSE [db |-> fresh, file |-> saved.file, hit |-> FALSE, save_ok |-> saved.ok,
              wrote |-> sf.save_path /\ sf.create_ok]

(***************************************************************************)
(* App::search (ui.rs): [results, selected] after the call.                *)
(***************************************************************************)
MAX_DISPLAY_RESULTS == 500

App_search(db, q, filter, sel) ==
    IF q = <<>> THEN [results |-> <<>>, selected |-> sel]
    ELSE IF Len(q) < 2 THEN [results |-> <<>>, selected |-> sel]
    ELSE [results  |-> search(db, q, filter, MAX_DISPLAY_RESULTS).out,
          selected |-> 0]

(***************************************************************************)
(* The methods of App that the keys call (ui.rs), on the App record a:     *)
(* [database, query, source_filter, results, selected, is_loading, mode].  *)
(* len is the length of the list the mode shows: results in Search mode,   *)
(* the flatpak hits or the history records in the other modes.             *)
(***************************************************************************)
Max(a, b) == IF a >= b THEN a ELSE b

Modes == {"Search", "Universal", "History"}

SourceFilter_next(f) ==
    IF f = NoFilter THEN Official ELSE IF f = Official THEN Aur ELSE NoFilter

(* App::search *)
Searching(a) ==
    LET r == App_search(a.database, a.query, a.source_filter, a.selected)
    IN  [a EXCEPT !.results = r.results, !.selected = r.selected]

(* App::search_flatpak: flatpak_results are not part of the record *)
search_flatpak(a) ==
    IF Len(a.query) < 2 THEN a ELSE [a EXCEPT !.selected = 0]

set_mode(a, m) == [a EXCEPT !.mode = m, !.selected = 0]

ListLen(a, other) == IF a.mode = "Search" THEN Len(a.results) ELSE other

select_previous(a, len) ==
    IF len = 0 THEN a ELSE [a EXCEPT !.selected = Max(a.selected - 1, 0)]

select_next(a, len) ==
    IF len = 0 THEN a
    ELSE [a EXCEPT !.selected = Min(a.selected + 1, Max(len - 1, 0))]

page_up(a) == [a EXCEPT !.selected = Max(a.selected - 10, 0)]

page_down(a, len) == [a EXCEPT !.selected = Min(a.selected + 10, Max(len - 1, 0))]

toggle_sourceDroppingStore(a) ==
    Searching([a EXCEPT !.source_filter = SourceFilter_next(a.source_filter),
                        !.database = NewDatabase])

toggle_source(a) ==
    LET b == [a EXCEPT !.source_filter = SourceFilter_next(a.source_filter)]
    IN  IF a.mode = "Search" THEN Searching(b) ELSE b

(* App::selected_package: Option<(name, source)> as [some, name, source] *)
selected_package(a) ==
    IF a.mode # "Search" THEN [some |-> FALSE, name |-> <<>>, source |-> Official]
    ELSE IF a.selected >= Len(a.results)
         THEN [some |-> FALSE, name |-> <<>>, source |-> Official]
    ELSE LET idx == a.results[a.selected + 1]
         IN  IF ~get_name(a.database, idx).some \/ ~get_source(a.database, idx).some
             THEN [some |-> FALSE, name |-> <<>>, source |-> Official]
             ELSE [some   |-> TRUE,
                   name   |-> get_name(a.database, idx).value,
                   source |-> get_source(a.database, idx).value]

(* draw_package_list: the slice results[scroll_offset..end_idx] it takes,  *)
(* visible_height being the height of the list area less its borders      *)
scroll_offset(a, visible_height) == Max(a.selected - (visible_height \div 2), 0)

end_idx(a, visible_height) ==
    Min(scroll_offset(a, visible_height) + visible_height, Len(a.results))

(* handle_input, KeyCode::Char(c) and KeyCode::Backspace *)
push_char(a, c) ==
    LET b == [a EXCEPT !.query = Append(a.query, c)]
    IN  IF a.mode = "Search" THEN Searching(b)
        ELSE IF a.mode = "Universal" THEN search_flatpak(b)
        ELSE a

pop_char(a) ==
    LET b == [a EXCEPT !.query = SubSeq(a.query, 1, Len(a.query) - 1)]
    IN  IF a.mode = "Search" THEN Searching(b)
        ELSE IF a.mode = "Universal" THEN search_flatpak(b)
        ELSE a

(***************************************************************************)
(* Inputs of the model.                                                    *)
(***************************************************************************)
Failed == [ok |-> FALSE, stdout |-> <<>>]

Answer(text) == [ok |-> TRUE, stdout |-> text]

(* a listing of n packages: the i-th name is i times the byte b *)
RECURSIVE Listing(_, _)
Listing(b, n) ==
    IF n = 0 THEN <<>>
    ELSE Listing(b, n - 1) \o [i \in 1..n |-> b] \o <<LF>>

(* what the commands answer during one build of the catalog in a run of   *)
(* the program: at most one helper is installed, and its listing is drawn *)
(* only when it is                                                        *)
Envs ==
    {e \in [official : {Failed} \cup {Answer(Listing(97, n)) : n \in 0..MaxPkgs},
            paru     : BOOLEAN,
            yay      : BOOLEAN,
            aur      : {Failed} \cup {Answer(Listing(98, n)) : n \in 0..MaxAurPkgs}] :
        /\ ~(e.paru /\ e.yay)
        /\ (~e.paru /\ ~e.yay) => e.aur = Failed}

(* any answers of the commands: raw bytes with LF, CR and a byte that is  *)
(* not UTF-8                                                              *)
Answers(bytes, n) == {Failed} \cup {Answer(t) : t \in SeqUpTo(bytes, n)}

BuildEnvs ==
    {e \in [official : Answers({97, LF, CR, 255}, MaxOut),
            paru     : BOOLEAN,
            yay      : BOOLEAN,
            aur      : Answers({98, LF}, MaxAurOut)] :
        (~e.paru /\ ~e.yay) => e.aur = Failed}

(* listings of names in both cases, for the searches *)
SearchEnvs ==
    [official : Answers({97, 65, LF}, MaxSearchOut),
     paru     : {TRUE},
     yay      : {FALSE},
     aur      : Answers({97, LF}, MaxAurOut)]

Queries == SeqUpTo({97, 65}, MaxQueryLen)

Filters == {NoFilter} \cup PackageSource

(* the listings of the runs in which keys are pressed: names of two bytes  *)
(* and more, so that queries of two bytes find some of them                *)
UiEnvs ==
    {e \in [official : {Failed, Answer(<<97, 97, LF, 97, 98, LF>>),
                        Answer(<<97, 97, LF, 97, 98, LF, 98, 97, LF>>)},
            paru     : BOOLEAN,
            yay      : {FALSE},
            aur      : {Failed, Answer(<<97, 98, LF>>)}] :
        ~e.paru => e.aur = Failed}

NoEnv == [official |-> Failed, paru |-> FALSE, yay |-> FALSE, aur |-> Failed]

Timestamps == {0, 1}

(* how the file system answers save_to_cache; a flag the code never gets  *)
(* to read is fixed                                                       *)
SaveFaults ==
    {sf \in [save_path : BOOLEAN, create_ok : BOOLEAN, steps : 0..3,
             timestamp : Timestamps] :
        /\ ~sf.save_path => sf.create_ok
        /\ (~sf.save_path \/ ~sf.create_ok) => sf.steps = 3
        /\ (~sf.save_path \/ ~sf.create_ok \/ sf.steps = 0) => sf.timestamp = 0}

NoSave == [save_path |-> FALSE, create_ok |-> TRUE, steps |-> 3, timestamp |-> 0]

(***************************************************************************)
(* auth.rs: AuthManager and its keep-alive thread.  The manager is the     *)
(* record [running, keepalive_handle, threads, pc, path]: running is the   *)
(* shared flag, keepalive_handle is 0 (None) or the number of the thread   *)
(* the handle joins, threads are the threads spawned so far, pc is where   *)
(* the thread that owns the manager stands and path is the way main takes  *)
(* to its end.  A thread is [pc, i, sudos, sleeps]: pc is "while" (about   *)
(* to load the flag at the head of the outer loop), "sudo" (about to run   *)
(* sudo -n -v), "for" (at the head of the inner loop, iteration i),        *)
(* "sleep" (about to sleep one second) or "done"; sudos and sleeps count   *)
(* the refreshes and the sleeps it started while the flag was clear.       *)
(***************************************************************************)
MaxThreads == 2

SLEEP_STEPS == 60

AuthManager_new ==
    [running |-> FALSE, keepalive_handle |-> 0, threads |-> <<>>,
     pc |-> "idle", path |-> "none"]

NewThread == [pc |-> "while", i |-> 0, sudos |-> 0, sleeps |-> 0]

Alive(m) == {t \in 1..Len(m.threads) : m.threads[t].pc # "done"}

spawn_keepaliveUnchecked(m) ==
    [m EXCEPT !.running = TRUE,
              !.threads = Append(@, NewThread),
              !.keepalive_handle = Len(m.threads) + 1]

spawn_keepalive(m) ==
    IF m.running THEN m
    ELSE [m EXCEPT !.running = TRUE,
                   !.threads = Append(@, NewThread),
                   !.keepalive_handle = Len(m.threads) + 1]

(* how the password prompt of authenticate can end *)
Passwords == {"io_error", "cancelled", "invalid", "accepted"}

Authenticated(privileged, password) == privileged \/ password = "accepted"

authenticate(m, privileged, password) ==
    IF Authenticated(privileged, password) THEN spawn_keepalive(m) ELSE m

(* the head of the inner loop: leave it after SLEEP_STEPS rounds or when  *)
(* the flag is clear; its counter ends with it                            *)
for_checkIgnoringFlag(t, running) ==
    IF t.i >= SLEEP_STEPS THEN [t EXCEPT !.pc = "while", !.i = 0]
    ELSE [t EXCEPT !.pc = "sleep"]

for_check(t, running) ==
    IF t.i >= SLEEP_STEPS THEN [t EXCEPT !.pc = "while", !.i = 0]
    ELSE IF ~running THEN [t EXCEPT !.pc = "while", !.i = 0]
    ELSE [t EXCEPT !.pc = "sleep"]

(* one step of the closure the thread runs *)
keepalive_step(t, running) ==
    CASE t.pc = "while" -> [t EXCEPT !.pc = IF running THEN "sudo" ELSE "done"]
      [] t.pc = "sudo"  -> [t EXCEPT !.pc = "for", !.i = 0,
                                     !.sudos = IF running THEN @ ELSE @ + 1]
      [] t.pc = "for"   -> for_check(t, running)
      [] t.pc = "sleep" -> [t EXCEPT !.pc = "for", !.i = @ + 1,
                                     !.sleeps = IF running THEN @ ELSE @ + 1]
      [] OTHER          -> t

(* shutdown, first statement: running.store(false) *)
shutdown_store(m) == [m EXCEPT !.running = FALSE]

(* shutdown, second statement: take the handle and join it; the join      *)
(* returns once the thread is done                                        *)
CanJoin(m) ==
    IF m.keepalive_handle = 0 THEN TRUE
    ELSE m.threads[m.keepalive_handle].pc = "done"

shutdown_join(m) == [m EXCEPT !.keepalive_handle = 0]

(***************************************************************************)
(* history.rs: History.records is a sequence of InstallRecord, each        *)
(* [name, success].                                                        *)
(***************************************************************************)
MAX_HISTORY_ENTRIES == 500

History_default == <<>>

truncate(records, n) == IF Len(records) > n THEN SubSeq(records, 1, n) ELSE records

addNoTrim(records, record) == <<record>> \o records

add(records, record) ==
    LET inserted == <<record>> \o records
    IN  IF Len(inserted) > MAX_HISTORY_ENTRIES
        THEN truncate(inserted, MAX_HISTORY_ENTRIES)
        ELSE inserted

success_count(records) == Cardinality({i \in 1..Len(records) : records[i].success})

failure_count(records) == Cardinality({i \in 1..Len(records) : ~records[i].success})

(***************************************************************************)
(* flatpak.rs: FlatpakDatabase is [apps, stats]; apps is the Option        *)
(* [some, list] and stats is [app_count, load_time_ms, source].  An app    *)
(* is [id, name, summary], each a byte string.                             *)
(***************************************************************************)
TAB == 9

None == [some |-> FALSE, list |-> <<>>]

Some(list) == [some |-> TRUE, list |-> list]

FlatpakStats_default == [app_count |-> 0, load_time_ms |-> 0, source |-> ""]

FlatpakDatabase_new == [apps |-> None, stats |-> FlatpakStats_default]

is_loaded(db) == db.apps.some

(* parse_xml_reader on the components of a document: a component without  *)
(* an id or without a name is left out                                    *)
RECURSIVE parse_xml_reader(_)
parse_xml_reader(components) ==
    IF components = <<>> THEN <<>>
    ELSE LET c == Head(components)
         IN  (IF c.id # <<>> /\ c.name # <<>>
              THEN <<[id |-> c.id, name |-> c.name, summary |-> c.summary]>>
              ELSE <<>>) \o parse_xml_reader(Tail(components))

(* parse_gzipped_xml, parse_plain_xml: a file that cannot be opened gives *)
(* None                                                                   *)
parse_xml(f) == IF f.open_ok THEN Some(parse_xml_reader(f.components)) ELSE None

parse_appstreamAcceptingEmpty(paths) ==
    IF paths = <<>> THEN None
    ELSE IF Head(paths).exists THEN parse_xml(Head(paths))
    ELSE None

(* parse_appstream over the paths in order: the first file that is there  *)
(* and gives a list that is not empty                                     *)
RECURSIVE parse_appstream(_)
parse_appstream(paths) ==
    IF paths = <<>> THEN None
    ELSE LET f == Head(paths)
             apps == parse_xml(f)
         IN  IF ~f.exists THEN parse_appstream(Tail(paths))
             ELSE IF apps.some /\ apps.list # <<>> THEN apps
             ELSE parse_appstream(Tail(paths))

(* splitn(3, '\t'): the parts of a line, the third taking the rest *)
RECURSIVE splitn(_, _, _)
splitn(n, line, cur) ==
    IF line = <<>> THEN <<cur>>
    ELSE IF n > 1 /\ Head(line) = TAB
         THEN <<cur>> \o splitn(n - 1, Tail(line), <<>>)
         ELSE splitn(n, Tail(line), Append(cur, Head(line)))

RECURSIVE CliApps(_)
CliApps(lines) ==
    IF lines = <<>> THEN <<>>
    ELSE LET parts == splitn(3, Head(lines), <<>>)
         IN  (IF Len(parts) >= 2
              THEN <<[id |-> parts[1], name |-> parts[2],
                      summary |-> IF Len(parts) >= 3 THEN parts[3] ELSE <<>>]>>
              ELSE <<>>) \o CliApps(Tail(lines))

parse_flatpak_cli(cli) ==
    IF ~cli.ok THEN None
    ELSE Some(CliApps(Lines(from_utf8_lossy(cli.stdout))))

(* FlatpakDatabase::load: the database after it, the result and whether   *)
(* the CLI was asked                                                      *)
FlatpakDatabase_load(db, paths, cli, ms) ==
    LET xml == parse_appstream(paths)
        fallback == parse_flatpak_cli(cli)
    IN  IF is_loaded(db)
        THEN [db |-> db, ok |-> TRUE, cli_called |-> FALSE]
        ELSE IF xml.some
        THEN [db |-> [apps  |-> xml,
                      stats |-> [app_count |-> Len(xml.list), load_time_ms |-> ms,
                                 source |-> "AppStream"]],
              ok |-> TRUE, cli_called |-> FALSE]
        ELSE IF fallback.some
        THEN [db |-> [apps  |-> fallback,
                      stats |-> [app_count |-> Len(fallback.list), load_time_ms |-> ms,
                                 source |-> "CLI"]],
              ok |-> TRUE, cli_called |-> TRUE]
        ELSE [db |-> db, ok |-> FALSE, cli_called |-> TRUE]

FlatpakDatabase_len(db) == IF db.apps.some THEN Len(db.apps.list) ELSE 0

RECURSIVE take(_, _)
take(s, n) == IF n = 0 \/ s = <<>> THEN <<>> ELSE <<Head(s)>> \o take(Tail(s), n - 1)

RECURSIVE FlatpakMatches(_, _)
FlatpakMatches(apps, query_lower) ==
    IF apps = <<>> THEN <<>>
    ELSE (IF \/ contains(to_lowercase(Head(apps).id), query_lower)
             \/ contains(to_lowercase(Head(apps).name), query_lower)
          THEN <<Head(apps)>> ELSE <<>>) \o FlatpakMatches(Tail(apps), query_lower)

FlatpakDatabase_search(db, q, limit) ==
    IF ~db.apps.some THEN <<>>
    ELSE take(FlatpakMatches(db.apps.list, to_lowercase(q)), limit)

unload(db) == [apps |-> None, stats |-> FlatpakStats_default]

(***************************************************************************)
(* State.                                                                  *)
(*   database, query, source_filter, results, selected, is_loading, mode:  *)
(*               fields of App (mode is "Search", "Universal" or "History")*)
(*   file        the cache file index.bin                                  *)
(*   fileOrigin  who wrote the file last: "none", "saved" (a completed     *)
(*               save_to_cache), "prefix" (a proper prefix of a saved      *)
(*               file), "stale" (a saved file whose version word was       *)
(*               changed), "foreign" (a saved file with another word       *)
(*               changed)                                                  *)
(*   hazard      what the environment does to the cache in this run:       *)
(*               "io_errors" (any file system call may fail),              *)
(*               "tampering" (the calls succeed, the file may be changed   *)
(*               by others) or "none" (the calls succeed, the file is left *)
(*               alone)                                                    *)
(*   last        what the last operation was given and what it did         *)
(*   auth        the AuthManager of main and its keep-alive threads        *)
(*   history     App.history.records                                       *)
(*   flatpak     App.flatpak                                               *)
(***************************************************************************)
VARIABLES database, query, source_filter, results, selected, is_loading, mode,
          file, fileOrigin, hazard, last, auth, history, flatpak

vars == <<database, query, source_filter, results, selected, is_loading, mode,
          file, fileOrigin, hazard, last, auth, history, flatpak>>

(* the manager main holds and the history and the Flatpak database of App *)
others == <<auth, history, flatpak>>

OthersNew ==
    /\ auth = AuthManager_new
    /\ history = History_default
    /\ flatpak = FlatpakDatabase_new

Hazards == {"io_errors", "tampering"}

(* the answers a file system call can give under the hazard of the run *)
CallOk == IF hazard = "io_errors" THEN BOOLEAN ELSE {TRUE}

SaveAnswers ==
    {sf \in SaveFaults :
        IF hazard = "io_errors"
        THEN sf.timestamp = 0
        ELSE sf.save_path /\ sf.create_ok /\ sf.steps = 3}

(* what the commands can answer in this run *)
Sources == IF hazard = "none" THEN UiEnvs ELSE Envs

app == <<database, query, source_filter, results, selected, is_loading, mode>>

NoPick == [some |-> FALSE, name |-> <<>>, source |-> Official]

Idle ==
    [op |-> "new", hit |-> FALSE, save_ok |-> FALSE, wrote |-> FALSE,
     env |-> NoEnv, cmds |-> <<>>,
     before |-> "none",
     q |-> <<>>, f |-> NoFilter, limit |-> 0, out |-> <<>>, panic |-> FALSE,
     picked |-> NoPick, calls |-> 0, path |-> TRUE, ok |-> TRUE]

(***************************************************************************)
(* App::new                                                                *)
(***************************************************************************)
AppNew ==
    /\ database = NewDatabase
    /\ query = <<>>
    /\ source_filter = NoFilter
    /\ results = <<>>
    /\ selected = 0
    /\ is_loading = TRUE
    /\ mode = "Search"

Init ==
    /\ AppNew
    /\ OthersNew
    /\ file = NoFile
    /\ fileOrigin = "none"
    /\ hazard \in Hazards
    /\ last = Idle

(***************************************************************************)
(* The origin of the file after load_or_build ran on it.                   *)
(***************************************************************************)
OriginAfter(r, origin) ==
    IF ~r.wrote THEN origin
    ELSE IF r.save_ok THEN "saved"
    ELSE "prefix"

(***************************************************************************)
(* App::load_database on file f: database = load_or_build(), is_loading =  *)
(* false.  Each answer load_from_cache can give on f is taken; the         *)
(* commands and the save are drawn only on a miss.                         *)
(***************************************************************************)
Loaded(r, origin) ==
    /\ database' = r.db
    /\ is_loading' = FALSE
    /\ file' = r.file
    /\ fileOrigin' = OriginAfter(r, origin)

load_database(f, origin, op) ==
    \E cached \in {load_from_cache(f, path, open_ok) : path \in CallOk, open_ok \in CallOk} :
        IF cached.some
        THEN /\ Loaded(load_or_build(cached, f, NoEnv, NoSave), origin)
             /\ last' = [Idle EXCEPT !.op = op, !.hit = TRUE, !.before = origin]
        ELSE \E env \in Sources, sf \in SaveAnswers :
             LET r == load_or_build(cached, f, env, sf)
             IN  /\ Loaded(r, origin)
                 /\ last' = [Idle EXCEPT !.op = op, !.save_ok = r.save_ok,
                                         !.wrote = r.wrote, !.env = env,
                                         !.cmds = Commands(env), !.before = origin]

(***************************************************************************)
(* run_tui: App::load_database, called once before the event loop.         *)
(***************************************************************************)
LoadDatabase ==
    /\ is_loading
    /\ load_database(file, fileOrigin, "load_database")
    /\ UNCHANGED <<query, source_filter, results, selected, mode, hazard>>
    /\ UNCHANGED others

RefreshDatabaseKeepingResults ==
    /\ ~is_loading
    /\ \E kept \in {invalidate_cache(file, path, remove_ok).file :
                      path \in CallOk, remove_ok \in CallOk} :
          load_database(kept, IF kept = file THEN fileOrigin ELSE "none",
                        "refresh_database")
    /\ UNCHANGED <<query, source_filter, results, selected, mode, hazard>>
    /\ UNCHANGED others

(***************************************************************************)
(* App::refresh_database (F5): invalidate_cache with its result dropped,   *)
(* load_database, then App::search.                                        *)
(***************************************************************************)
RefreshDatabase ==
    /\ ~is_loading
    /\ \E kept \in {invalidate_cache(file, path, remove_ok).file :
                      path \in CallOk, remove_ok \in CallOk} :
          load_database(kept, IF kept = file THEN fileOrigin ELSE "none",
                        "refresh_database")
    /\ results' = App_search(database', query, source_filter, selected).results
    /\ selected' = App_search(database', query, source_filter, selected).selected
    /\ UNCHANGED <<query, source_filter, mode, hazard>>
    /\ UNCHANGED others

(***************************************************************************)
(* The program ends (Esc) and is started again: App::new, the cache file   *)
(* stays.                                                                  *)
(***************************************************************************)
Restart ==
    /\ ~is_loading
    /\ database' = NewDatabase
    /\ query' = <<>>
    /\ source_filter' = NoFilter
    /\ results' = <<>>
    /\ selected' = 0
    /\ is_loading' = TRUE
    /\ mode' = "Search"
    /\ last' = Idle
    /\ UNCHANGED <<file, fileOrigin, hazard>>
    /\ UNCHANGED others

(***************************************************************************)
(* Environment: the cache file is cut short (any proper prefix).           *)
(***************************************************************************)
TruncateFile ==
    /\ hazard = "tampering"
    /\ fileOrigin = "saved"
    /\ \E k \in 0..(Len(file.words) - 1) :
          file' = [file EXCEPT !.words = SubSeq(file.words, 1, k)]
    /\ fileOrigin' = "prefix"
    /\ last' = [Idle EXCEPT !.op = "truncate"]
    /\ UNCHANGED <<app, hazard>>
    /\ UNCHANGED others

(***************************************************************************)
(* Environment: one word of a saved cache file is overwritten (another     *)
(* program version, a damaged disk, an editor).                            *)
(***************************************************************************)
CorruptFile ==
    /\ hazard = "tampering"
    /\ fileOrigin = "saved"
    /\ \E i \in 1..Len(file.words), v \in (0..MaxWord) \cup {255} :
          /\ v # file.words[i]
          /\ file' = [file EXCEPT !.words[i] = v]
          /\ fileOrigin' = IF i = 1 THEN "stale" ELSE "foreign"
    /\ last' = [Idle EXCEPT !.op = "corrupt"]
    /\ UNCHANGED <<app, hazard>>
    /\ UNCHANGED others

(***************************************************************************)
(* Every behaviour of the program and its environment.                     *)
(***************************************************************************)
Next ==
    \/ LoadDatabase
    \/ RefreshDatabase
    \/ Restart
    \/ TruncateFile
    \/ CorruptFile

Spec == Init /\ [][Next]_vars

(***************************************************************************)
(* run_tui with the keyboard: load_database, then the event loop, one      *)
(* handle_input per step.  The file system works and nobody else touches   *)
(* the cache file.  A key that matches no arm of handle_input in the       *)
(* current mode changes nothing and is not a step.  Esc ends the program.  *)
(***************************************************************************)
MaxUiQuery == 2

MaxOtherLen == 2

MaxHeight == 2

UiChars == {97, 98}

Me ==
    [database |-> database, query |-> query, source_filter |-> source_filter,
     results |-> results, selected |-> selected, is_loading |-> is_loading,
     mode |-> mode]

Becomes(a) ==
    /\ database' = a.database
    /\ query' = a.query
    /\ source_filter' = a.source_filter
    /\ results' = a.results
    /\ selected' = a.selected
    /\ is_loading' = a.is_loading
    /\ mode' = a.mode

(* a key other than F5 was handled: the cache file is not touched *)
Key(k, a) ==
    /\ ~is_loading
    /\ Becomes(a)
    /\ last' = [last EXCEPT !.op = k, !.picked = NoPick]
    /\ UNCHANGED <<file, fileOrigin, hazard>>
    /\ UNCHANGED others

InitUi ==
    /\ AppNew
    /\ OthersNew
    /\ file = NoFile
    /\ fileOrigin = "none"
    /\ hazard = "none"
    /\ last = Idle

KeyChar ==
    /\ mode \in {"Search", "Universal"}
    /\ Len(query) < MaxUiQuery
    /\ \E c \in UiChars : Key("Char", push_char(Me, c))

KeyBackspace ==
    /\ mode \in {"Search", "Universal"}
    /\ Key("Backspace", pop_char(Me))

KeyUp ==
    /\ ~is_loading
    /\ \E other \in 0..MaxOtherLen : Key("Up", select_previous(Me, ListLen(Me, other)))

KeyDown ==
    /\ ~is_loading
    /\ \E other \in 0..MaxOtherLen : Key("Down", select_next(Me, ListLen(Me, other)))

KeyPageUp ==
    /\ ~is_loading
    /\ Key("PageUp", page_up(Me))

KeyPageDown ==
    /\ ~is_loading
    /\ \E other \in 0..MaxOtherLen : Key("PageDown", page_down(Me, ListLen(Me, other)))

KeyTab ==
    /\ mode = "Search"
    /\ Key("Tab", toggle_source(Me))

KeyMode ==
    /\ ~is_loading
    /\ \E m \in Modes : Key("Mode", set_mode(Me, m))

KeyEnter ==
    /\ mode = "Search"
    /\ ~is_loading
    /\ last' = [last EXCEPT !.op = "Enter", !.picked = selected_package(Me)]
    /\ UNCHANGED <<app, file, fileOrigin, hazard>>
    /\ UNCHANGED others

KeyF5 ==
    /\ mode = "Search"
    /\ RefreshDatabase

NextUi ==
    \/ LoadDatabase
    \/ KeyChar
    \/ KeyBackspace
    \/ KeyUp
    \/ KeyDown
    \/ KeyPageUp
    \/ KeyPageDown
    \/ KeyTab
    \/ KeyMode
    \/ KeyEnter
    \/ KeyF5

SpecUi == InitUi /\ [][NextUi]_vars

(***************************************************************************)
(* build_fresh alone, on any answers of the commands: the answers are      *)
(* drawn first, then the build runs.                                       *)
(***************************************************************************)
InitBuild ==
    /\ AppNew
    /\ OthersNew
    /\ file = NoFile
    /\ fileOrigin = "none"
    /\ hazard = "io_errors"
    /\ \E env \in BuildEnvs : last = [Idle EXCEPT !.op = "sources", !.env = env]

BuildFresh ==
    /\ last.op = "sources"
    /\ database' = build_fresh(last.env)
    /\ last' = [last EXCEPT !.op = "build_fresh", !.cmds = Commands(last.env)]
    /\ UNCHANGED <<query, source_filter, results, selected, is_loading, mode,
                   file, fileOrigin, hazard>>
    /\ UNCHANGED others

NextBuild == BuildFresh

SpecBuild == InitBuild /\ [][NextBuild]_vars

(***************************************************************************)
(* PackageDatabase::search alone, on the store load_database leaves when   *)
(* there is no cache directory.  A search changes nothing of the store, so *)
(* one call per run is explored.                                           *)
(***************************************************************************)
InitSearch ==
    /\ \E env \in SearchEnvs :
          /\ database = load_or_build(Miss, NoFile, env, NoSave).db
          /\ last = [Idle EXCEPT !.op = "load_database", !.save_ok = TRUE, !.env = env,
                                 !.cmds = Commands(env)]
    /\ query = <<>>
    /\ source_filter = NoFilter
    /\ results = <<>>
    /\ selected = 0
    /\ is_loading = FALSE
    /\ mode = "Search"
    /\ file = NoFile
    /\ fileOrigin = "none"
    /\ hazard = "io_errors"
    /\ OthersNew

SearchCall ==
    /\ ~is_loading
    /\ last.op # "search"
    /\ \E q \in Queries, f \in Filters, limit \in 0..MaxLimit :
          LET r == search(database, q, f, limit)
          IN  last' = [last EXCEPT !.op = "search", !.q = q, !.f = f, !.limit = limit,
                                  !.out = r.out, !.panic = r.panic]
    /\ UNCHANGED <<app, file, fileOrigin, hazard>>
    /\ UNCHANGED others

NextSearch == SearchCall

SpecSearch == InitSearch /\ [][NextSearch]_vars

(***************************************************************************)
(* PackageDatabase::invalidate_cache alone, called up to MaxCalls times in *)
(* a row on any cache file a save left (complete or cut off by a failed    *)
(* write) or on none.  Whether there is a cache directory is fixed for the *)
(* run (last.path); each remove_file may fail.                             *)
(***************************************************************************)
MaxCalls == 3

CacheFiles ==
    {[file |-> NoFile, origin |-> "none"]}
    \cup {[file   |-> save_to_cache(load_or_build(Miss, NoFile, env, NoSave).db,
                                    NoFile, TRUE, TRUE, steps, 0).file,
           origin |-> IF steps = 3 THEN "saved" ELSE "prefix"] :
             env \in Envs, steps \in 0..3}

InitInvalidate ==
    /\ AppNew
    /\ OthersNew
    /\ hazard = "io_errors"
    /\ \E c \in CacheFiles, path \in BOOLEAN :
          /\ file = c.file
          /\ fileOrigin = c.origin
          /\ last = [Idle EXCEPT !.op = "files", !.before = c.origin, !.path = path]

InvalidateCache ==
    /\ last.calls < MaxCalls
    /\ \E remove_ok \in CallOk :
          LET r == invalidate_cache(file, last.path, remove_ok)
          IN  /\ file' = r.file
              /\ fileOrigin' = IF r.file = file THEN fileOrigin ELSE "none"
              /\ last' = [last EXCEPT !.op = "invalidate_cache", !.ok = r.ok,
                                      !.calls = last.calls + 1]
    /\ UNCHANGED <<app, hazard>>
    /\ UNCHANGED others

NextInvalidate == InvalidateCache

SpecInvalidate == InitInvalidate /\ [][NextInvalidate]_vars

(***************************************************************************)
(* One AuthManager under any sequence of authenticate() and shutdown()     *)
(* calls of the thread that owns it, with the keep-alive threads running   *)
(* beside it.  A step of a keep-alive thread is one load of the flag, one  *)
(* sudo -n -v or one sleep of a second.  shutdown is two steps: the store  *)
(* of the flag, then the join, which waits for the thread to be done.      *)
(***************************************************************************)
MaxShutdowns == 2

AuthIdle == [op |-> "new", ok |-> TRUE, calls |-> 0]

AuthFrame == UNCHANGED <<app, file, fileOrigin, hazard, history, flatpak>>

InitAuth ==
    /\ AppNew
    /\ file = NoFile
    /\ fileOrigin = "none"
    /\ hazard = "none"
    /\ auth = AuthManager_new
    /\ history = History_default
    /\ flatpak = FlatpakDatabase_new
    /\ last = AuthIdle

Authenticate ==
    /\ auth.pc = "idle"
    /\ Len(auth.threads) < MaxThreads
    /\ \E privileged \in BOOLEAN, password \in Passwords :
          /\ auth' = authenticate(auth, privileged, password)
          /\ last' = [op |-> "authenticate",
                      ok |-> Authenticated(privileged, password), calls |-> 0]
    /\ AuthFrame

ShutdownStore ==
    /\ auth.pc = "idle"
    /\ last.calls < MaxShutdowns
    /\ auth' = [shutdown_store(auth) EXCEPT !.pc = "shutdown"]
    /\ last' = [last EXCEPT !.op = "shutdown_store"]
    /\ AuthFrame

ShutdownJoin ==
    /\ auth.pc = "shutdown"
    /\ CanJoin(auth)
    /\ auth' = [shutdown_join(auth) EXCEPT !.pc = "idle"]
    /\ last' = [last EXCEPT !.op = "shutdown", !.calls = @ + 1]
    /\ AuthFrame

KeepaliveStep ==
    /\ \E t \in Alive(auth) :
          auth' = [auth EXCEPT !.threads[t] = keepalive_step(@, auth.running)]
    /\ UNCHANGED last
    /\ AuthFrame

NextAuth ==
    \/ Authenticate
    \/ ShutdownStore
    \/ ShutdownJoin
    \/ KeepaliveStep

SpecAuth == InitAuth /\ [][NextAuth]_vars

(* the scheduler lets a thread that can step do so, sudo and sleep come   *)
(* back, and a join returns once its thread is done                       *)
SpecAuthFair ==
    /\ InitAuth
    /\ [][NextAuth]_vars
    /\ WF_vars(KeepaliveStep)
    /\ WF_vars(ShutdownJoin)

(***************************************************************************)
(* main: AuthManager::new, authenticate, run_tui, and the drop of the      *)
(* manager when main returns.  run_tui ends with Err at any of its `?`     *)
(* (before the shutdown of its last lines) or with Ok after shutdown.      *)
(***************************************************************************)
InitMain ==
    /\ AppNew
    /\ file = NoFile
    /\ fileOrigin = "none"
    /\ hazard = "none"
    /\ auth = [AuthManager_new EXCEPT !.pc = "main"]
    /\ history = History_default
    /\ flatpak = FlatpakDatabase_new
    /\ last = AuthIdle

MainAuthenticate ==
    /\ auth.pc = "main"
    /\ \E privileged \in BOOLEAN, password \in Passwords :
          /\ auth' = IF Authenticated(privileged, password)
                     THEN [authenticate(auth, privileged, password)
                              EXCEPT !.pc = "run_tui"]
                     ELSE [authenticate(auth, privileged, password)
                              EXCEPT !.pc = "return", !.path = "auth_failed"]
          /\ last' = [op |-> "authenticate",
                      ok |-> Authenticated(privileged, password), calls |-> 0]
    /\ AuthFrame

TuiError ==
    /\ auth.pc = "run_tui"
    /\ auth' = [auth EXCEPT !.pc = "return", !.path = "io_error"]
    /\ last' = [last EXCEPT !.op = "run_tui", !.ok = FALSE]
    /\ AuthFrame

TuiQuit ==
    /\ auth.pc = "run_tui"
    /\ auth' = [shutdown_store(auth) EXCEPT !.pc = "tui_shutdown", !.path = "quit"]
    /\ last' = [last EXCEPT !.op = "shutdown_store"]
    /\ AuthFrame

TuiShutdownJoin ==
    /\ auth.pc = "tui_shutdown"
    /\ CanJoin(auth)
    /\ auth' = [shutdown_join(auth) EXCEPT !.pc = "return"]
    /\ last' = [last EXCEPT !.op = "run_tui", !.ok = TRUE, !.calls = @ + 1]
    /\ AuthFrame

MainReturnWithoutDrop ==
    /\ auth.pc = "return"
    /\ auth' = [auth EXCEPT !.pc = "exited"]
    /\ last' = [last EXCEPT !.op = "exit"]
    /\ AuthFrame

(* main returns its ExitCode: the manager goes out of scope and drop      *)
(* calls shutdown                                                         *)
MainReturn ==
    /\ auth.pc = "return"
    /\ auth' = [shutdown_store(auth) EXCEPT !.pc = "drop"]
    /\ last' = [last EXCEPT !.op = "drop"]
    /\ AuthFrame

DropJoin ==
    /\ auth.pc = "drop"
    /\ CanJoin(auth)
    /\ auth' = [shutdown_join(auth) EXCEPT !.pc = "exited"]
    /\ last' = [last EXCEPT !.op = "exit", !.calls = @ + 1]
    /\ AuthFrame

NextMain ==
    \/ MainAuthenticate
    \/ TuiError
    \/ TuiQuit
    \/ TuiShutdownJoin
    \/ MainReturn
    \/ DropJoin
    \/ KeepaliveStep

SpecMain == InitMain /\ [][NextMain]_vars

(***************************************************************************)
(* History: the records History::load read from history.json (any number   *)
(* of them, the file is not checked against MAX_HISTORY_ENTRIES), then     *)
(* History::add as record_success and record_failure call it.  Names are   *)
(* numbers; the i-th record of a loaded history has the name i.            *)
(***************************************************************************)
MaxShortHistory == 2

MaxAdds == 2

HistoryLengths ==
    (0..MaxShortHistory)
    \cup ((MAX_HISTORY_ENTRIES - MaxShortHistory)..(MAX_HISTORY_ENTRIES + 1))

Outcomes == {"mixed", "succeeded", "failed"}

LoadedHistories ==
    {[i \in 1..n |-> [name    |-> i,
                      success |-> CASE o = "mixed"     -> i % 2 = 0
                                    [] o = "succeeded" -> TRUE
                                    [] OTHER           -> FALSE]] :
        n \in HistoryLengths, o \in Outcomes}

NoRecord == [name |-> 0, success |-> FALSE]

HistoryFrame == UNCHANGED <<app, file, fileOrigin, hazard, auth, flatpak>>

InitHistory ==
    /\ AppNew
    /\ file = NoFile
    /\ fileOrigin = "none"
    /\ hazard = "none"
    /\ auth = AuthManager_new
    /\ flatpak = FlatpakDatabase_new
    /\ history \in LoadedHistories
    /\ last = [op |-> "load", before |-> <<>>, added |-> NoRecord, calls |-> 0]

HistoryAdd ==
    /\ last.calls < MaxAdds
    /\ \E record \in [name : {0, 1}, success : BOOLEAN] :
          /\ history' = add(history, record)
          /\ last' = [op |-> "add", before |-> history, added |-> record,
                      calls |-> last.calls + 1]
    /\ HistoryFrame

NextHistory == HistoryAdd

SpecHistory == InitHistory /\ [][NextHistory]_vars

(***************************************************************************)
(* FlatpakDatabase: new, then load, search and unload in any order.  The   *)
(* two AppStream files and the answer of the flatpak command are drawn at  *)
(* each load that reads them; what the code does not get to read is fixed. *)
(***************************************************************************)
MaxComponents == 1

MaxCliLines == 1

MaxFlatpakLimit == 2

Components == [id : {<<>>, <<97>>}, name : {<<>>, <<65>>}, summary : {<<>>}]

Absent == [exists |-> FALSE, open_ok |-> FALSE, components |-> <<>>]

XmlFiles ==
    {Absent, [exists |-> TRUE, open_ok |-> FALSE, components |-> <<>>]}
    \cup {[exists |-> TRUE, open_ok |-> TRUE, components |-> c] :
             c \in SeqUpTo(Components, MaxComponents)}

(* the file is there and holds a component with an id and a name *)
Gives(f) ==
    /\ f.exists
    /\ f.open_ok
    /\ \E i \in 1..Len(f.components) :
          f.components[i].id # <<>> /\ f.components[i].name # <<>>

(* the lines flatpak remote-ls can print: one, two or three columns, an   *)
(* empty id and name                                                      *)
CliLines == {<<97>>, <<TAB>>, <<97, TAB, 65>>, <<98, TAB, 97, TAB, 98>>}

RECURSIVE JoinLines(_)
JoinLines(lines) ==
    IF lines = <<>> THEN <<>> ELSE Head(lines) \o <<LF>> \o JoinLines(Tail(lines))

CliAnswers ==
    {Failed} \cup {Answer(JoinLines(l)) : l \in SeqUpTo(CliLines, MaxCliLines)}

FlatpakSources ==
    {e \in [gz : XmlFiles, plain : XmlFiles, cli : CliAnswers] :
        /\ Gives(e.gz) => e.plain = Absent
        /\ (Gives(e.gz) \/ Gives(e.plain)) => e.cli = Failed}

NoSources == [gz |-> Absent, plain |-> Absent, cli |-> Failed]

FlatpakIdle ==
    [op |-> "new", ok |-> TRUE, cli_called |-> FALSE, env |-> NoSources,
     before |-> FlatpakDatabase_new, q |-> <<>>, limit |-> 0, out |-> <<>>]

FlatpakFrame == UNCHANGED <<app, file, fileOrigin, hazard, auth, history>>

InitFlatpak ==
    /\ AppNew
    /\ file = NoFile
    /\ fileOrigin = "none"
    /\ hazard = "none"
    /\ auth = AuthManager_new
    /\ history = History_default
    /\ flatpak = FlatpakDatabase_new
    /\ last = FlatpakIdle

FlatpakLoad ==
    /\ \E e \in IF is_loaded(flatpak) THEN {NoSources} ELSE FlatpakSources,
          ms \in Timestamps :
          LET r == FlatpakDatabase_load(flatpak, <<e.gz, e.plain>>, e.cli, ms)
          IN  /\ flatpak' = r.db
              /\ last' = [FlatpakIdle EXCEPT !.op = "load", !.ok = r.ok,
                                             !.cli_called = r.cli_called,
                                             !.env = e, !.before = flatpak]
    /\ FlatpakFrame

FlatpakSearch ==
    /\ \E q \in SeqUpTo({97, 65}, 1), limit \in 0..MaxFlatpakLimit :
          last' = [FlatpakIdle EXCEPT !.op = "search", !.before = flatpak,
                                      !.q = q, !.limit = limit,
                                      !.out = FlatpakDatabase_search(flatpak, q, limit)]
    /\ UNCHANGED flatpak
    /\ FlatpakFrame

FlatpakUnload ==
    /\ flatpak' = unload(flatpak)
    /\ last' = [FlatpakIdle EXCEPT !.op = "unload"]
    /\ FlatpakFrame

NextFlatpak ==
    \/ FlatpakLoad
    \/ FlatpakSearch
    \/ FlatpakUnload

SpecFlatpak == InitFlatpak /\ [][NextFlatpak]_vars

(***************************************************************************)
(* Properties of PackageDatabase::search (under SpecSearch).               *)
(***************************************************************************)
Searched == last.op = "search"

(* the view at index i holds q somewhere, both folded to lower case *)
HoldsQuery(db, i, q) ==
    LET v == db.packages[i + 1]
    IN  \E o \in v.name_start..(v.name_end - Len(q)) :
            \A k \in 1..Len(q) : LowerByte(db.arena[o + k]) = LowerByte(q[k])

Qualifying(db, q, f) ==
    {i \in 0..(Len(db.packages) - 1) :
        /\ f = NoFilter \/ db.packages[i + 1].source = f
        /\ HoldsQuery(db, i, q)}

(* C1: search(q, f, limit) returns at most limit indices, for every store, *)
(* query, filter and limit, limit = 0 included.                            *)
C1_AtMostLimit == Searched => Len(last.out) <= last.limit

(* C2: every index search returns is a valid view index whose name holds   *)
(* the query case-insensitively and whose source passes the filter; so a   *)
(* search filtered to Aur over official entries only returns nothing.      *)
C2_ResultsQualify ==
    Searched =>
        /\ ~last.panic
        /\ \A k \in 1..Len(last.out) :
              /\ last.out[k] \in 0..(Len(database.packages) - 1)
              /\ last.out[k] \in Qualifying(database, last.q, last.f)
        /\ (last.f = Aur /\ \A i \in 1..Len(database.packages) :
                                 database.packages[i].source = Official)
           => last.out = <<>>

C2_Witness ==
    /\ Searched
    /\ last.f = Aur
    /\ last.out # <<>>
    /\ to_lowercase(last.q) # last.q
    /\ \E i \in 1..Len(database.packages) : database.packages[i].source = Official

(* C3: for a non-empty query search returns exactly the first              *)
(* min(limit, M) qualifying indices in ascending order, M the number of    *)
(* qualifying views.                                                       *)
C3_FirstMatchesInOrder ==
    (Searched /\ last.q # <<>>) =>
        LET qual == Qualifying(database, last.q, last.f)
        IN  /\ Len(last.out) = Min(last.limit, Cardinality(qual))
            /\ \A k \in 1..Len(last.out) :
                  /\ last.out[k] \in qual
                  /\ Cardinality({j \in qual : j < last.out[k]}) = k - 1

(* C4: search with an empty query returns the empty sequence for every    *)
(* store, filter and limit.                                                *)
C4_EmptyQueryEmptyResult ==
    (Searched /\ last.q = <<>>) => (last.out = <<>> /\ ~last.panic)

C4_Witness ==
    /\ Searched
    /\ last.q = <<>>
    /\ last.limit > 0
    /\ last.f = NoFilter
    /\ Len(database.packages) >= 2

(***************************************************************************)
(* Properties of the cache and of the store's life (under Spec), and of    *)
(* build_fresh (under SpecBuild).                                          *)
(***************************************************************************)
LoadOps == {"load_database", "refresh_database"}

LoadedNow == last.op \in LoadOps

(* the (name, source) pairs of a store, by index *)
NamesOf(db) ==
    [i \in 1..Len(db.packages) |->
        [name |-> name(db.packages[i], db.arena), source |-> db.packages[i].source]]

(* the (name, source) pairs the commands reported: their non-empty lines *)
Tagged(answer, source) ==
    LET lines == SelectSeq(Lines(from_utf8_lossy(answer.stdout)), LAMBDA l : l # <<>>)
    IN  [i \in 1..Len(lines) |-> [name |-> lines[i], source |-> source]]

Reported(env) ==
    (IF env.official.ok THEN Tagged(env.official, Official) ELSE <<>>)
    \o (IF (env.paru \/ env.yay) /\ env.aur.ok THEN Tagged(env.aur, Aur) ELSE <<>>)

ViewInvariant(db) ==
    \A i \in 1..Len(db.packages) :
        /\ 0 <= db.packages[i].name_start
        /\ db.packages[i].name_start <= db.packages[i].name_end
        /\ db.packages[i].name_end <= Len(db.arena)

NoDelimiterInNames(db) ==
    \A i \in 1..Len(db.packages) :
        \A k \in (db.packages[i].name_start + 1)..db.packages[i].name_end :
            db.arena[k] # LF

(* C5: save_to_cache then load_from_cache on the untouched file gives back *)
(* the counts, the arena bytes, the number of views and the (name, source) *)
(* pair at every index, with was_cached = true; and a store loaded from a  *)
(* saved file is the store that file was written from.                     *)
C5_CacheRoundTrip ==
    /\ (LoadedNow /\ last.wrote /\ last.save_ok) =>
          LET r == load_from_cache(file, TRUE, TRUE)
          IN  /\ r.some
              /\ r.db.stats.official_count = database.stats.official_count
              /\ r.db.stats.aur_count = database.stats.aur_count
              /\ r.db.arena = database.arena
              /\ Len(r.db.packages) = Len(database.packages)
              /\ NamesOf(r.db) = NamesOf(database)
              /\ r.db.stats.was_cached
    /\ (LoadedNow /\ last.hit /\ last.before = "saved") =>
          /\ database.stats.was_cached
          /\ Serialize(database, file.words[HeaderWords]) = file.words

C5_Witness ==
    /\ LoadedNow
    /\ last.wrote
    /\ last.save_ok
    /\ Len(database.packages) >= 3
    /\ database.packages[3].source = Aur

(* C6: in every freshly built store every view satisfies                   *)
(* 0 <= name_start <= name_end <= len(arena) and its name holds no LF,     *)
(* whatever bytes the two sources answer.                                  *)
C6_ViewsInArena ==
    last.op = "build_fresh" => (ViewInvariant(database) /\ NoDelimiterInNames(database))

C6_Witness ==
    /\ last.op = "build_fresh"
    /\ Len(database.packages) >= 3
    /\ database.packages[3].source = Aur
    /\ \E i \in 1..Len(last.env.official.stdout) : last.env.official.stdout[i] = CR
    /\ \E i \in 1..(Len(last.env.official.stdout) - 1) :
          last.env.official.stdout[i] = LF /\ last.env.official.stdout[i + 1] = LF

(* C7: a file whose header version is not CACHE_VERSION is a miss whatever *)
(* follows the header, and load_or_build then builds from the sources and  *)
(* reports was_cached = false.                                             *)
C7_StaleVersionIsMiss ==
    /\ (file.exists /\ file.words # <<>>) =>
          \A v \in (0..MaxWord) \ {CACHE_VERSION} :
              ~load_from_cache([file EXCEPT !.words[1] = v], TRUE, TRUE).some
    /\ (LoadedNow /\ last.before = "stale") =>
          /\ ~last.hit
          /\ ~database.stats.was_cached
          /\ last.cmds = Commands(last.env)
          /\ NamesOf(database) = Reported(last.env)

C7_Witness ==
    /\ last.op = "load_database"
    /\ last.before = "stale"
    /\ Len(database.packages) >= 2

(* C8: an absent, unopenable or truncated cache file (any proper prefix of *)
(* a saved file) is a miss, and every miss falls back to a full fresh      *)
(* build.                                                                  *)
C8_TruncatedIsMiss ==
    /\ fileOrigin = "saved" =>
          \A k \in 0..(Len(file.words) - 1) :
              ~load_from_cache([file EXCEPT !.words = SubSeq(file.words, 1, k)],
                               TRUE, TRUE).some
    /\ (LoadedNow /\ last.before \in {"none", "prefix"}) => ~last.hit
    /\ (LoadedNow /\ ~last.hit) =>
          /\ ~database.stats.was_cached
          /\ last.cmds = Commands(last.env)
          /\ NamesOf(database) = Reported(last.env)

C8_Witness ==
    /\ last.op = "load_database"
    /\ last.before = "prefix"
    /\ hazard = "tampering"
    /\ Len(database.packages) >= 2

(* a file of the current version that decodes to views outside the arena  *)
(* or over a delimiter, or whose header disagrees with what follows it    *)
Malformed(f) ==
    LET r == Deserialize(f.words)
    IN  /\ r.some
        /\ \/ ~ViewInvariant(r.db)
           \/ ~NoDelimiterInNames(r.db)
           \/ f.words[4] # f.words[HeaderWords + 1]
           \/ f.words[2] # Cardinality({i \in 1..Len(r.db.packages) :
                                          r.db.packages[i].source = Official})
           \/ f.words[3] # Cardinality({i \in 1..Len(r.db.packages) :
                                          r.db.packages[i].source = Aur})

(* C9: a malformed file of the current version is a miss like an absent    *)
(* one, so no store load_or_build returns violates                         *)
(* 0 <= start <= end <= len(arena).                                        *)
C9_MalformedIsMiss ==
    /\ LoadedNow => ViewInvariant(database)
    /\ (LoadedNow /\ last.hit) => ~Malformed(file)

(* C10: refresh_database always ends with a store built fresh from what    *)
(* the sources report at that time: was_cached = false and exactly the     *)
(* reported names, whether or not the snapshot could be deleted.           *)
C10_RefreshBuildsFresh ==
    last.op = "refresh_database" =>
        /\ ~last.hit
        /\ ~database.stats.was_cached
        /\ NamesOf(database) = Reported(last.env)

(***************************************************************************)
(* Properties of the build, the stats and the resolution of indices.       *)
(***************************************************************************)
TaggedAs(db, source) ==
    Cardinality({i \in 1..Len(db.packages) : db.packages[i].source = source})

Built == last.op = "build_fresh"

(* C11: when save_to_cache fails at any step, or has no path to write to,  *)
(* load_or_build still returns the freshly built store, with the names the *)
(* sources reported, usable for search and resolve, and load_database ends *)
(* normally.                                                               *)
C11_SaveBestEffort ==
    (LoadedNow /\ ~last.hit /\ (~last.save_ok \/ ~last.wrote)) =>
        /\ ~is_loading
        /\ NamesOf(database) = Reported(last.env)
        /\ ViewInvariant(database)
        /\ database.stats.official_count = TaggedAs(database, Official)
        /\ database.stats.aur_count = TaggedAs(database, Aur)
        /\ ~database.stats.was_cached
        /\ \A q \in Queries, f \in Filters :
              ~search(database, q, f, MAX_DISPLAY_RESULTS).panic
        /\ \A i \in 0..(Len(database.packages) - 1) :
              get_name(database, i).some /\ get_source(database, i).some

C11_Witness ==
    /\ LoadedNow
    /\ ~last.hit
    /\ last.wrote
    /\ ~last.save_ok
    /\ file.exists
    /\ Len(database.packages) >= 2

(* C13: if the official-source query fails, the build yields an empty      *)
(* catalog: official_count = 0, aur_count = 0, no views.                   *)
C13_OfficialFailureEmptyCatalog ==
    (Built /\ ~last.env.official.ok) =>
        /\ database.packages = <<>>
        /\ database.stats.official_count = 0
        /\ database.stats.aur_count = 0

(* C14: in a freshly built store all Official views precede all Aur views, *)
(* and within each source there is exactly one view per non-empty line, in *)
(* the order the source reported the lines, each name followed by one LF.  *)
C14_InsertionOrder ==
    Built =>
        /\ \A i, j \in 1..Len(database.packages) :
              (i < j /\ database.packages[i].source = Aur)
                  => database.packages[j].source = Aur
        /\ NamesOf(database) = Reported(last.env)
        /\ \A i \in 1..Len(database.packages) :
              database.packages[i].name_start =
                  (IF i = 1 THEN 0 ELSE database.packages[i - 1].name_end + 1)
        /\ Len(database.arena) =
              (IF database.packages = <<>> THEN 0
               ELSE database.packages[Len(database.packages)].name_end + 1)

C14_Witness ==
    /\ Built
    /\ Len(database.packages) >= 3
    /\ database.packages[2].source = Official
    /\ database.packages[3].source = Aur
    /\ name(database.packages[1], database.arena)
          # name(database.packages[2], database.arena)
    /\ \E i \in 1..(Len(last.env.official.stdout) - 1) :
          last.env.official.stdout[i] = LF /\ last.env.official.stdout[i + 1] = LF

ListingCommands == {"paru -Slq --aur", "yay -Slq --aur"}

Ran(cmd) == \E i \in 1..Len(last.cmds) : last.cmds[i] = cmd

(* C15: one build lists at most one helper: paru if its probe succeeds,    *)
(* otherwise yay if its probe succeeds, otherwise none; yay is not even    *)
(* probed after paru answered.  Without a helper, or when the chosen       *)
(* helper's listing fails, the store holds the official entries only.      *)
C15_OneHelperByPriority ==
    Built =>
        /\ Cardinality({i \in 1..Len(last.cmds) : last.cmds[i] \in ListingCommands}) <= 1
        /\ last.env.paru =>
              (Ran("paru -Slq --aur") /\ ~Ran("yay --version") /\ ~Ran("yay -Slq --aur"))
        /\ (~last.env.paru /\ last.env.yay) =>
              (Ran("yay -Slq --aur") /\ ~Ran("paru -Slq --aur"))
        /\ (~last.env.paru /\ ~last.env.yay) =>
              \A c \in ListingCommands : ~Ran(c)
        /\ ((~last.env.paru /\ ~last.env.yay) \/ ~last.env.aur.ok) =>
              /\ database.stats.aur_count = 0
              /\ TaggedAs(database, Aur) = 0
              /\ NamesOf(database) =
                    (IF last.env.official.ok THEN Tagged(last.env.official, Official)
                     ELSE <<>>)

C15_Witness ==
    /\ Built
    /\ last.env.paru
    /\ last.env.yay
    /\ ~last.env.aur.ok
    /\ Len(database.packages) >= 2

(* C16: for every store load_or_build returns, built or loaded,            *)
(* stats.arena_bytes is the byte length of the arena.                      *)
C16_ArenaBytesIsArenaLength ==
    LoadedNow => database.stats.arena_bytes = Len(database.arena)

(* C17: for every store load_or_build returns, the cache file being only   *)
(* ever written by save_to_cache, official_count and aur_count are the     *)
(* numbers of views tagged Official and Aur, and their sum is len().       *)
C17_CountsMatchTags ==
    (LoadedNow /\ last.before # "foreign") =>
        /\ database.stats.official_count = TaggedAs(database, Official)
        /\ database.stats.aur_count = TaggedAs(database, Aur)
        /\ database.stats.official_count + database.stats.aur_count
              = Len(database.packages)

C17_Witness ==
    /\ LoadedNow
    /\ last.hit
    /\ last.before = "saved"
    /\ database.stats.official_count = 2
    /\ database.stats.aur_count = 1

(* C20: every index search returns resolves on the same store: get_name    *)
(* and get_source answer exactly for idx < len(), the name is the arena    *)
(* bytes name_start..name_end of the view at idx and the source its tag.   *)
C20_ResultsResolve ==
    Searched =>
        /\ \A k \in 1..Len(last.out) :
              LET idx == last.out[k]
                  v   == database.packages[idx + 1]
              IN  /\ idx < Len(database.packages)
                  /\ SliceOk(v, database.arena)
                  /\ get_name(database, idx).some
                  /\ get_name(database, idx).value
                        = [j \in 1..(v.name_end - v.name_start) |->
                              database.arena[v.name_start + j]]
                  /\ get_source(database, idx) = [some |-> TRUE, value |-> v.source]
        /\ \A idx \in 0..(Len(database.packages) + 1) :
              /\ get_name(database, idx).some <=> idx < Len(database.packages)
              /\ get_source(database, idx).some <=> idx < Len(database.packages)

C20_Witness ==
    /\ Searched
    /\ ~last.panic
    /\ Len(last.out) >= 2
    /\ last.out[1] # 0

(* C12: invalidate_cache deletes the snapshot if present and is a          *)
(* successful no-op if absent: after a call that returned Ok there is no   *)
(* cache file, any further call returns Ok and changes nothing, and the    *)
(* next load is a miss.                                                    *)
C12_InvalidateIdempotent ==
    last.op = "invalidate_cache" =>
        /\ (last.path /\ last.ok) =>
              /\ ~file.exists
              /\ ~load_from_cache(file, TRUE, TRUE).some
        /\ ~last.ok => file.exists
        /\ ~file.exists =>
              \A remove_ok \in BOOLEAN :
                  invalidate_cache(file, last.path, remove_ok) = [ok |-> TRUE, file |-> file]

C12_Witness ==
    /\ last.op = "invalidate_cache"
    /\ last.before = "saved"
    /\ last.path
    /\ last.ok
    /\ last.calls >= 2
    /\ ~file.exists

(***************************************************************************)
(* Properties of the store while keys are handled (under SpecUi).          *)
(***************************************************************************)

(* C18: App.database holds the initial empty store until load_database has *)
(* run, and from then on, between any two key events, a completely built   *)
(* store: every name the sources reported at the last load or refresh, in  *)
(* order, with matching counts; never a store with part of the names.      *)
C18_OnlyCompleteStores ==
    /\ is_loading => database = NewDatabase
    /\ ~is_loading =>
          /\ NamesOf(database) = Reported(last.env)
          /\ ViewInvariant(database)
          /\ database.stats.official_count = TaggedAs(database, Official)
          /\ database.stats.aur_count = TaggedAs(database, Aur)

C18_Witness ==
    /\ last.op = "refresh_database"
    /\ ~is_loading
    /\ TaggedAs(database, Official) >= 2
    /\ TaggedAs(database, Aur) >= 1
    /\ Len(query) >= 2

(* C19: only load_database and refresh_database replace the store: typing, *)
(* backspace, navigation, Tab, Enter (search, get_name, get_source) and    *)
(* mode switches leave its arena, views and stats unchanged.               *)
C19_StoreImmutableExceptLoad ==
    [][last'.op \notin LoadOps => database' = database]_vars

C19_Witness ==
    /\ last.op = "Tab"
    /\ Len(database.packages) >= 2
    /\ results # <<>>
    /\ source_filter = Aur

(* C24: in a freshly built store the views tile the arena: the first view  *)
(* starts at 0, every view is non-empty, the byte at name_end is the LF,   *)
(* each next view starts at the previous name_end + 1, and the arena ends  *)
(* one byte after the last name_end (it is empty when there is no view).   *)
C24_ViewsTileArena ==
    Built =>
        LET n == Len(database.packages)
            v == database.packages
        IN  /\ n = 0 => database.arena = <<>>
            /\ n > 0 => (v[1].name_start = 0 /\ Len(database.arena) = v[n].name_end + 1)
            /\ \A i \in 1..n :
                  /\ v[i].name_start < v[i].name_end
                  /\ v[i].name_end < Len(database.arena)
                  /\ database.arena[v[i].name_end + 1] = LF
                  /\ i < n => v[i + 1].name_start = v[i].name_end + 1

C24_Witness ==
    /\ Built
    /\ Len(database.packages) >= 2
    /\ database.packages[1].name_end - database.packages[1].name_start >= 3
    /\ database.packages[2].source = Aur

(* C25: a load on a miss whose save wrote the snapshot is followed, the    *)
(* file unchanged, by a load that returns the same arena and views from    *)
(* the snapshot without running a command, the empty catalog included;     *)
(* was_cached is true exactly for a store that came from the snapshot.     *)
C25_HitAfterMiss ==
    LoadedNow =>
        /\ database.stats.was_cached <=> last.hit
        /\ last.hit => last.cmds = <<>>
        /\ ~last.hit => last.cmds = Commands(last.env)
        /\ (~last.hit /\ last.wrote /\ last.save_ok) =>
              LET next == load_or_build(load_from_cache(file, TRUE, TRUE), file,
                                        NoEnv, NoSave)
              IN  /\ next.hit
                  /\ next.db.arena = database.arena
                  /\ next.db.packages = database.packages
                  /\ next.db.stats.was_cached
                  /\ next.file = file
        /\ (last.before = "saved" /\ hazard = "tampering") =>
              /\ last.hit
              /\ Serialize(database, file.words[HeaderWords]) = file.words

C25_Witness ==
    /\ LoadedNow
    /\ last.hit
    /\ last.before = "saved"
    /\ database.packages = <<>>
    /\ database.stats.was_cached

(* C26: in Search mode the selection stays inside the result list:         *)
(* selected < len(results) when results is non-empty, selected = 0 when it *)
(* is empty, so the slice of draw_package_list has scroll_offset <=        *)
(* end_idx for every height of the list.                                   *)
C26_SelectionInRange ==
    (mode = "Search" /\ ~is_loading) =>
        /\ results # <<>> => selected < Len(results)
        /\ results = <<>> => selected = 0
        /\ \A h \in 0..MaxHeight : scroll_offset(Me, h) <= end_idx(Me, h)

(* C27: in Search mode, between key events, results is                     *)
(* database.search(query, source_filter, 500) when the query has at least  *)
(* 2 bytes and is empty otherwise.                                         *)
C27_ResultsAgreeWithQuery ==
    (mode = "Search" /\ ~is_loading) =>
        results = (IF Len(query) >= 2
                   THEN search(database, query, source_filter, MAX_DISPLAY_RESULTS).out
                   ELSE <<>>)

(* C28: every index held in results is below the current len() and was    *)
(* produced by a search over the current store, so selected_package        *)
(* resolves the selected index on the store it was searched in.            *)
C28_ResultsOfCurrentStore ==
    ~is_loading =>
        /\ \A k \in 1..Len(results) : results[k] < Len(database.packages)
        /\ \E q \in SeqUpTo(UiChars, MaxUiQuery), f \in Filters :
              results = (IF Len(q) >= 2
                         THEN search(database, q, f, MAX_DISPLAY_RESULTS).out
                         ELSE <<>>)
        /\ (mode = "Search" /\ selected < Len(results)) =>
              LET v == database.packages[results[selected + 1] + 1]
              IN  selected_package(Me) =
                      [some |-> TRUE, name |-> name(v, database.arena),
                       source |-> v.source]

C28_Witness ==
    /\ last.op = "refresh_database"
    /\ Len(results) >= 2
    /\ results[1] # 0
    /\ mode = "Search"

(***************************************************************************)
(* Properties of main and the keep-alive thread (under SpecMain).          *)
(***************************************************************************)
Exited == auth.pc = "exited"

(* C21: on every way main ends (authentication failed, run_tui returned an *)
(* error, or the user quit) the keep-alive thread, if one was spawned, was *)
(* told to stop and joined before the process exits: once main has exited  *)
(* the flag is clear, the handle is taken and no keep-alive thread is      *)
(* alive.                                                                  *)
C21_JoinedBeforeExit ==
    Exited =>
        /\ auth.path \in {"auth_failed", "io_error", "quit"}
        /\ ~auth.running
        /\ auth.keepalive_handle = 0
        /\ Alive(auth) = {}

C21_Witness ==
    /\ Exited
    /\ auth.path = "io_error"
    /\ Len(auth.threads) = 1
    /\ auth.threads[1].pc = "done"

(***************************************************************************)
(* Properties of AuthManager under any calls (SpecAuth, SpecAuthFair).     *)
(***************************************************************************)
Returned == last.op = "shutdown" /\ auth.pc = "idle"

(* C22: once shutdown has cleared the flag the keep-alive thread ends and  *)
(* the join returns (the scheduler being fair and sudo coming back); from  *)
(* the clearing on the thread starts at most one more sudo refresh and at  *)
(* most one more sleep of a second; after shutdown running is false and    *)
(* keepalive_handle is None, and another shutdown changes nothing and does *)
(* not wait.                                                               *)
C22_ShutdownTerminates ==
    /\ [](\A t \in 1..Len(auth.threads) :
             auth.threads[t].sudos <= 1 /\ auth.threads[t].sleeps <= 1)
    /\ [](Returned =>
             /\ ~auth.running
             /\ auth.keepalive_handle = 0
             /\ Alive(auth) = {}
             /\ CanJoin(shutdown_store(auth))
             /\ shutdown_join(shutdown_store(auth)) = auth)
    /\ (auth.pc = "shutdown") ~> Returned

C22_Witness ==
    /\ Returned
    /\ last.calls = 2
    /\ Len(auth.threads) = 2
    /\ auth.threads[1].sudos = 1
    /\ auth.threads[2].sleeps = 1

(* C23: whatever authenticate and shutdown calls are made on one manager,  *)
(* at most one keep-alive thread is alive at a time: a new manager has the *)
(* flag clear and no thread, spawn_keepalive changes nothing while the     *)
(* flag is set, and a thread that is alive is the one the handle holds,    *)
(* every thread spawned before it being done.                              *)
C23_OneKeepalive ==
    /\ Cardinality(Alive(auth)) <= 1
    /\ last.op = "new" =>
          ~auth.running /\ auth.keepalive_handle = 0 /\ auth.threads = <<>>
    /\ auth.running => spawn_keepalive(auth) = auth
    /\ \A t \in Alive(auth) :
          /\ auth.keepalive_handle = t
          /\ \A u \in 1..Len(auth.threads) : u # t => auth.threads[u].pc = "done"

C23_Witness ==
    /\ Len(auth.threads) = 2
    /\ auth.threads[1].pc = "done"
    /\ Alive(auth) = {2}
    /\ auth.running
    /\ last.op = "authenticate"

(***************************************************************************)
(* Properties of History (under SpecHistory).                              *)
(***************************************************************************)
(* C29: History.add keeps the records newest first and bounded: the record *)
(* added is records[0], the records that were there follow it in their     *)
(* order, the length is at most MAX_HISTORY_ENTRIES and what is dropped is *)
(* the oldest; success_count and failure_count add up to the number of     *)
(* records.                                                                *)
C29_NewestFirstBounded ==
    /\ success_count(history) + failure_count(history) = Len(history)
    /\ last.op = "add" =>
          /\ Len(history) = Min(Len(last.before) + 1, MAX_HISTORY_ENTRIES)
          /\ Len(history) <= MAX_HISTORY_ENTRIES
          /\ history[1] = last.added
          /\ \A i \in 2..Len(history) : history[i] = last.before[i - 1]

C29_Witness ==
    /\ last.op = "add"
    /\ Len(last.before) = MAX_HISTORY_ENTRIES
    /\ Len(history) = MAX_HISTORY_ENTRIES
    /\ history[1] = last.added
    /\ success_count(history) > 0
    /\ failure_count(history) > 0

(***************************************************************************)
(* Properties of FlatpakDatabase (under SpecFlatpak).                      *)
(***************************************************************************)
FirstLoad == last.op = "load" /\ ~is_loaded(last.before)

AppStreamGives(e) == Gives(e.gz) \/ Gives(e.plain)

(* C30: the Flatpak database is loaded lazily: while it is not loaded its  *)
(* length is 0 and a search returns nothing (a new database is not         *)
(* loaded); load on a loaded database returns Ok and changes neither apps  *)
(* nor stats; a load in which neither AppStream nor the CLI gives a list   *)
(* returns Err and leaves the database unloaded with its stats as they     *)
(* were; the CLI is asked only when no AppStream file gave a list that is  *)
(* not empty.                                                              *)
C30_LazyLoad ==
    /\ last.op = "new" => ~is_loaded(flatpak)
    /\ ~is_loaded(flatpak) =>
          /\ FlatpakDatabase_len(flatpak) = 0
          /\ last.op = "search" => last.out = <<>>
    /\ (last.op = "load" /\ is_loaded(last.before)) =>
          last.ok /\ flatpak = last.before /\ ~last.cli_called
    /\ (FirstLoad /\ ~AppStreamGives(last.env) /\ ~last.env.cli.ok) =>
          ~last.ok /\ ~is_loaded(flatpak) /\ flatpak.stats = last.before.stats
    /\ (FirstLoad /\ (last.cli_called \/ flatpak.stats.source = "CLI")) =>
          ~AppStreamGives(last.env)

C30_Witness ==
    /\ FirstLoad
    /\ last.env.gz.exists /\ last.env.gz.open_ok
    /\ ~AppStreamGives(last.env)
    /\ ~last.env.cli.ok
    /\ ~last.ok
    /\ ~is_loaded(flatpak)

====
